---- MODULE Spec2Model ----
(***************************************************************************)
(* SteddockMacdEma200Rsi: EMA200 / MACD / RSI trend-following strategy.    *)
(*                                                                         *)
(* The strategy object holds the two tunable RSI bounds; the host hands it *)
(* a dataframe of candles and calls populate_indicators, then              *)
(* populate_entry_trend and populate_exit_trend on it.                     *)
(*                                                                         *)
(* A dataframe is a function from column names to columns; a column is a   *)
(* sequence of cells, one per row; a cell is <<>> (NaN) or <<v>>.  Row t   *)
(* of the source (0-based) is position t + 1 of a column.  Prices are      *)
(* integers (ticks); the indicators are computed as TA-Lib computes them,  *)
(* on the same integer grid, every division rounding down.  Only the       *)
(* "close" candle column is kept: no function of the strategy reads open,  *)
(* high, low or volume.                                                    *)
(***************************************************************************)
EXTENDS Integers, Sequences, FiniteSets, TLC

VARIABLES
    dataframe,       \* the frame the host is having analysed
    rsi_entry_low,   \* self.rsi_entry_low.value
    rsi_entry_high,  \* self.rsi_entry_high.value
    analyzed,        \* the frame as it stood when the next candle arrived
    arrived          \* number of candles that arrived after the first frame

vars == <<dataframe, rsi_entry_low, rsi_entry_high, analyzed, arrived>>

----------------------------------------------------------------------------
(* Strategy attributes and indicator periods *)

ema_length == 200
rsi_exit == 30
rsi_timeperiod == 14
macd_fastperiod == 12
macd_slowperiod == 26
macd_signalperiod == 9
rsi_entry_low_default == 45
rsi_entry_high_default == 55

(* Bound of the model: candles appended to the first frame. *)
MaxArrived == 2

(* Inputs: the length of the first frame; the shape <<turn, fall, rebound>> *)
(* of its closes (a rise of 20 per row up to row turn, then fall per row up *)
(* to row 198, then rebound per row); the move of each later candle; and    *)
(* the parameter pairs a host may load (the declared defaults, a narrower   *)
(* band inside the declared ranges, and an inverted pair).                  *)
StartLens == {1, 14, 200}
Shapes == {<<176, -100, 600>>, <<0, -100, -100>>}
Moves == {-200, 200, 600}
ParamSets == {<<45, 55>>, <<45, 50>>, <<55, 45>>}

Min(a, b) == IF a < b THEN a ELSE b
Max(a, b) == IF a > b THEN a ELSE b

Candles(n, shape) ==
    [i \in 1..n |->
        <<100000 + 20 * Min(i - 1, shape[1])
                 + shape[2] * Max(0, Min(i - 1, 198) - shape[1])
                 + shape[3] * Max(0, i - 1 - 198)>>]

----------------------------------------------------------------------------
(* Cells, comparisons (pandas: any comparison with NaN is False) *)

NaN == <<>>

isna(x) == x = NaN

gt(a, b) == ~isna(a) /\ ~isna(b) /\ a[1] > b[1]
ge(a, b) == ~isna(a) /\ ~isna(b) /\ a[1] >= b[1]
(* NaN read as 0, as after fillna(0) *)
lt_nan_zero(a, b) ==
    (IF isna(a) THEN 0 ELSE a[1]) < (IF isna(b) THEN 0 ELSE b[1])

lt(a, b) == ~isna(a) /\ ~isna(b) /\ a[1] < b[1]
le(a, b) == ~isna(a) /\ ~isna(b) /\ a[1] <= b[1]

Rows(df) == 1..Len(df["close"])

AllNaN(n) == [i \in 1..n |-> NaN]

(* Series.shift(periods) *)
shift(col, periods) ==
    [i \in 1..Len(col) |->
        IF (i - periods) \in 1..Len(col) THEN col[i - periods] ELSE NaN]

(* shift(-1): the next row's value *)
prev_lookahead(col) == shift(col, -1)

(* the .shift(1) of the three lag columns *)
prev(col) == shift(col, 1)

(* dataframe[name] = col *)
setitem(df, name, col) ==
    [c \in DOMAIN df \cup {name} |-> IF c = name THEN col ELSE df[c]]

----------------------------------------------------------------------------
(* TA-Lib functions, applied to the close column *)

Price(df) == [i \in Rows(df) |-> df["close"][i][1]]

(* The recursions below split their range in halves: the result is that of  *)
(* the row-by-row loop, the nesting stays logarithmic in the frame length   *)
(* (the test on the left half has it evaluated before the right half).      *)
RECURSIVE SumRange(_, _, _)
SumRange(real, i, j) ==
    IF i > j THEN 0
    ELSE IF i = j THEN real[i]
    ELSE LET mid == (i + j) \div 2
         IN  SumRange(real, i, mid) + SumRange(real, mid + 1, j)

(* prevMA = ((real[today] - prevMA) * k) + prevMA with k = 2 / (period + 1), *)
(* for today = i..j; st holds prevMA and the output written so far           *)
RECURSIVE EmaRange(_, _, _, _, _)
EmaRange(real, period, i, j, st) ==
    IF i > j THEN st
    ELSE IF i = j
         THEN LET today == st.ma + ((real[i] - st.ma) * 2) \div (period + 1)
              IN  [ma |-> today, out |-> Append(st.out, <<today>>)]
    ELSE LET mid == (i + j) \div 2
             left == EmaRange(real, period, i, mid, st)
         IN  IF left.ma \in Int THEN EmaRange(real, period, mid + 1, j, left) ELSE left

(* EMA of real seeded with the simple average of the period values that    *)
(* begin at position start; NaN before the seed.                          *)
INT_EMA(real, start, period) ==
    LET first == start + period - 1
    IN  IF Len(real) < first THEN AllNaN(Len(real))
        ELSE LET seed == SumRange(real, start, first) \div period
             IN  EmaRange(real, period, first + 1, Len(real),
                          [ma |-> seed,
                           out |-> [i \in 1..first |->
                                       IF i = first THEN <<seed>> ELSE NaN]]).out

EMA(df, timeperiod) == INT_EMA(Price(df), 1, timeperiod)

(* MACD with the default periods: both averages start at the slow one's    *)
(* first value, the signal is the EMA of the line, and all three outputs   *)
(* begin where the signal does.                                            *)
MACD(df) ==
    LET real == Price(df)
        n == Len(real)
        slow == INT_EMA(real, 1, macd_slowperiod)
        fast == INT_EMA(real, macd_slowperiod - macd_fastperiod + 1, macd_fastperiod)
        line == [i \in 1..n |-> IF isna(slow[i]) THEN 0 ELSE fast[i][1] - slow[i][1]]
        signal == INT_EMA(line, macd_slowperiod, macd_signalperiod)
    IN  [macd |-> [i \in 1..n |-> IF isna(signal[i]) THEN NaN ELSE <<line[i]>>],
         macdsignal |-> signal,
         macdhist |-> [i \in 1..n |->
                          IF isna(signal[i]) THEN NaN ELSE <<line[i] - signal[i][1]>>]]

RECURSIVE SumGain(_, _, _)
SumGain(real, i, j) ==
    IF i > j THEN 0 ELSE Max(real[i] - real[i - 1], 0) + SumGain(real, i + 1, j)

RECURSIVE SumLoss(_, _, _)
SumLoss(real, i, j) ==
    IF i > j THEN 0 ELSE Max(real[i - 1] - real[i], 0) + SumLoss(real, i + 1, j)

RsiValue(g, l) == IF g + l = 0 THEN 0 ELSE (100 * g) \div (g + l)

(* Wilder smoothing of the average gain and loss for rows i..j *)
RECURSIVE RsiRange(_, _, _, _, _)
RsiRange(real, period, i, j, st) ==
    IF i > j THEN st
    ELSE IF i = j
         THEN LET g2 == (st.g * (period - 1) + Max(real[i] - real[i - 1], 0)) \div period
                  l2 == (st.l * (period - 1) + Max(real[i - 1] - real[i], 0)) \div period
              IN  [g |-> g2, l |-> l2, out |-> Append(st.out, <<RsiValue(g2, l2)>>)]
    ELSE LET mid == (i + j) \div 2
             left == RsiRange(real, period, i, mid, st)
         IN  IF left.g \in Int THEN RsiRange(real, period, mid + 1, j, left) ELSE left

(* first value one row early: the seed averages timeperiod - 1 changes *)
RSI_early(df, timeperiod) ==
    LET real == Price(df)
        n == Len(real)
        p == timeperiod - 1
    IN  IF n <= p THEN AllNaN(n)
        ELSE LET g == SumGain(real, 2, p + 1) \div p
                 l == SumLoss(real, 2, p + 1) \div p
             IN  RsiRange(real, timeperiod, p + 2, n,
                          [g |-> g, l |-> l,
                           out |-> [i \in 1..(p + 1) |->
                                       IF i = p + 1 THEN <<RsiValue(g, l)>> ELSE NaN]]).out

(* Wilder's RSI: NaN on the first timeperiod rows *)
RSI(df, timeperiod) ==
    LET real == Price(df)
        n == Len(real)
    IN  IF n <= timeperiod THEN AllNaN(n)
        ELSE LET g == SumGain(real, 2, timeperiod + 1) \div timeperiod
                 l == SumLoss(real, 2, timeperiod + 1) \div timeperiod
             IN  RsiRange(real, timeperiod, timeperiod + 2, n,
                          [g |-> g, l |-> l,
                           out |-> [i \in 1..(timeperiod + 1) |->
                                       IF i = timeperiod + 1
                                       THEN <<RsiValue(g, l)>> ELSE NaN]]).out

----------------------------------------------------------------------------
(* The three functions of the strategy *)

CandleCols == {"close"}
IndicatorCols == {"ema200", "ema200_prev", "macd", "macdsignal", "macdhist",
                  "macd_prev", "macdsignal_prev", "rsi"}

HasIndicators(df) == IndicatorCols \subseteq DOMAIN df

(* the lag columns shifted from the lag columns already in the frame *)
Indicators_relag(df) ==
    LET old(name, col) == IF name \in DOMAIN df THEN df[name] ELSE col
        d1 == setitem(df, "ema200", EMA(df, ema_length))
        d2 == setitem(d1, "ema200_prev", prev(old("ema200_prev", d1["ema200"])))
        macd == MACD(d2)
        d3 == setitem(d2, "macd", macd.macd)
        d4 == setitem(d3, "macdsignal", macd.macdsignal)
        d5 == setitem(d4, "macdhist", macd.macdhist)
        d6 == setitem(d5, "macd_prev", prev(old("macd_prev", d5["macd"])))
        d7 == setitem(d6, "macdsignal_prev",
                      prev(old("macdsignal_prev", d6["macdsignal"])))
    IN  setitem(d7, "rsi", RSI(d7, rsi_timeperiod))

Indicators(df) ==
    LET d1 == setitem(df, "ema200", EMA(df, ema_length))
        d2 == setitem(d1, "ema200_prev", prev(d1["ema200"]))
        macd == MACD(d2)
        d3 == setitem(d2, "macd", macd.macd)
        d4 == setitem(d3, "macdsignal", macd.macdsignal)
        d5 == setitem(d4, "macdhist", macd.macdhist)
        d6 == setitem(d5, "macd_prev", prev(d5["macd"]))
        d7 == setitem(d6, "macdsignal_prev", prev(d6["macdsignal"]))
    IN  setitem(d7, "rsi", RSI(d7, rsi_timeperiod))

(* rsi > low in place of rsi >= low *)
EntryMask_strict_low(df, low, high) ==
    [i \in Rows(df) |->
        /\ gt(df["close"][i], df["ema200"][i])
        /\ gt(df["ema200"][i], df["ema200_prev"][i])
        /\ gt(df["macd"][i], df["macdsignal"][i])
        /\ le(df["macd_prev"][i], df["macdsignal_prev"][i])
        /\ gt(df["rsi"][i], <<low>>)
        /\ le(df["rsi"][i], <<high>>)]

(* the condition on the previous row left out *)
EntryMask_no_cross(df, low, high) ==
    [i \in Rows(df) |->
        /\ gt(df["close"][i], df["ema200"][i])
        /\ gt(df["ema200"][i], df["ema200_prev"][i])
        /\ gt(df["macd"][i], df["macdsignal"][i])
        /\ ge(df["rsi"][i], <<low>>)
        /\ le(df["rsi"][i], <<high>>)]

EntryMask(df, low, high) ==
    [i \in Rows(df) |->
        /\ gt(df["close"][i], df["ema200"][i])
        /\ gt(df["ema200"][i], df["ema200_prev"][i])
        /\ gt(df["macd"][i], df["macdsignal"][i])
        /\ le(df["macd_prev"][i], df["macdsignal_prev"][i])
        /\ ge(df["rsi"][i], <<low>>)
        /\ le(df["rsi"][i], <<high>>)]

(* the regime-violation disjunct left out *)
ExitMask_no_regime(df) ==
    [i \in Rows(df) |->
        \/ /\ lt(df["macd"][i], df["macdsignal"][i])
           /\ ge(df["macd_prev"][i], df["macdsignal_prev"][i])
        \/ lt(df["rsi"][i], <<rsi_exit>>)]

(* rsi > rsi_exit in place of rsi < rsi_exit *)
ExitMask_rsi_flipped(df) ==
    [i \in Rows(df) |->
        \/ /\ lt(df["macd"][i], df["macdsignal"][i])
           /\ ge(df["macd_prev"][i], df["macdsignal_prev"][i])
        \/ gt(df["rsi"][i], <<rsi_exit>>)
        \/ lt(df["close"][i], df["ema200"][i])]

ExitMask(df) ==
    [i \in Rows(df) |->
        \/ /\ lt(df["macd"][i], df["macdsignal"][i])
           /\ ge(df["macd_prev"][i], df["macdsignal_prev"][i])
        \/ lt(df["rsi"][i], <<rsi_exit>>)
        \/ lt(df["close"][i], df["ema200"][i])]

(* dataframe[name] = where(mask, 1, 0): the whole column rewritten *)
loc_set_where(df, mask, name) ==
    setitem(df, name, [i \in Rows(df) |-> IF mask[i] THEN <<1>> ELSE <<0>>])

(* dataframe.loc[mask, name] = 1: a missing column is created as NaN *)
loc_set(df, mask, name) ==
    setitem(df, name,
            [i \in Rows(df) |->
                IF mask[i] THEN <<1>>
                ELSE IF name \in DOMAIN df THEN df[name][i] ELSE NaN])

EntryTrend(df, low, high) == loc_set(df, EntryMask(df, low, high), "enter_long")

ExitTrend(df) == loc_set(df, ExitMask(df), "exit_long")

----------------------------------------------------------------------------
(* State machine *)

NoFrame == [c \in {} |-> <<>>]

Init ==
    /\ \E n \in StartLens, shape \in Shapes :
           dataframe = [c \in CandleCols |-> Candles(n, shape)]
    /\ rsi_entry_low = rsi_entry_low_default
    /\ rsi_entry_high = rsi_entry_high_default
    /\ analyzed = NoFrame
    /\ arrived = 0

(* The host calls populate_indicators first, before either signal function *)
populate_indicators ==
    /\ "enter_long" \notin DOMAIN dataframe
    /\ "exit_long" \notin DOMAIN dataframe
    /\ dataframe' = Indicators(dataframe)
    /\ UNCHANGED <<rsi_entry_low, rsi_entry_high, analyzed, arrived>>

populate_entry_trend ==
    /\ HasIndicators(dataframe)
    /\ dataframe' = EntryTrend(dataframe, rsi_entry_low, rsi_entry_high)
    /\ UNCHANGED <<rsi_entry_low, rsi_entry_high, analyzed, arrived>>

populate_exit_trend ==
    /\ HasIndicators(dataframe)
    /\ dataframe' = ExitTrend(dataframe)
    /\ UNCHANGED <<rsi_entry_low, rsi_entry_high, analyzed, arrived>>

(* The host assigns the two IntParameter values; nothing checks them *)
load_params ==
    /\ \E p \in ParamSets :
           /\ rsi_entry_low' = p[1]
           /\ rsi_entry_high' = p[2]
    /\ UNCHANGED <<dataframe, analyzed, arrived>>

(* A candle closes: the host builds a fresh frame, one row longer *)
NewCandle ==
    /\ arrived < MaxArrived
    /\ {"enter_long", "exit_long"} \subseteq DOMAIN dataframe
    /\ \E d \in Moves :
           LET close == dataframe["close"]
           IN  dataframe' =
                   [c \in CandleCols |-> Append(close, <<close[Len(close)][1] + d>>)]
    /\ analyzed' = dataframe
    /\ arrived' = arrived + 1
    /\ UNCHANGED <<rsi_entry_low, rsi_entry_high>>

Next ==
    \/ populate_indicators
    \/ populate_entry_trend
    \/ populate_exit_trend
    \/ load_params
    \/ NewCandle

Spec == Init /\ [][Next]_vars

----------------------------------------------------------------------------
(* Properties *)

SignalCols == {"enter_long", "exit_long"}

Set == <<1>>

(* the cell of column c at position i; unset outside the frame *)
at(df, c, i) == IF c \in DOMAIN df /\ i \in 1..Len(df[c]) THEN df[c][i] ELSE NaN

defined(cells) == \A x \in cells : x # NaN

Complete(df) == HasIndicators(df) /\ SignalCols \subseteq DOMAIN df

(* The entry rule as the documentation words it, on rows t and t - 1 of    *)
(* the indicator columns themselves.                                       *)
EntryRule(df, i, low, high) ==
    /\ defined({at(df, "close", i), at(df, "ema200", i), at(df, "ema200", i - 1),
                at(df, "macd", i), at(df, "macdsignal", i), at(df, "macd", i - 1),
                at(df, "macdsignal", i - 1), at(df, "rsi", i)})
    /\ df["close"][i][1] > df["ema200"][i][1]
    /\ df["ema200"][i][1] > df["ema200"][i - 1][1]
    /\ df["macd"][i][1] > df["macdsignal"][i][1]
    /\ df["macd"][i - 1][1] <= df["macdsignal"][i - 1][1]
    /\ low <= df["rsi"][i][1]
    /\ df["rsi"][i][1] <= high

BearishCross(df, i) ==
    /\ defined({at(df, "macd", i), at(df, "macdsignal", i), at(df, "macd", i - 1),
                at(df, "macdsignal", i - 1)})
    /\ df["macd"][i][1] < df["macdsignal"][i][1]
    /\ df["macd"][i - 1][1] >= df["macdsignal"][i - 1][1]

RsiBreakdown(df, i) == defined({at(df, "rsi", i)}) /\ df["rsi"][i][1] < 30

RegimeViolation(df, i) ==
    /\ defined({at(df, "close", i), at(df, "ema200", i)})
    /\ df["close"][i][1] < df["ema200"][i][1]

ExitRule(df, i) == BearishCross(df, i) \/ RsiBreakdown(df, i) \/ RegimeViolation(df, i)

(* C1: on a frame with indicators and no enter_long column yet,            *)
(* populate_entry_trend sets enter_long to 1 at exactly the rows where     *)
(* close > ema200, ema200 > ema200[t-1], macd > macdsignal,                *)
(* macd[t-1] <= macdsignal[t-1] and rsi_entry_low <= rsi <= rsi_entry_high *)
(* (both bounds inclusive), and leaves every other row unset.              *)
C1_EntryExactly ==
    [][("enter_long" \notin DOMAIN dataframe /\ "enter_long" \in DOMAIN dataframe')
        => \A i \in Rows(dataframe) :
               dataframe'["enter_long"][i] =
                   IF EntryRule(dataframe, i, rsi_entry_low, rsi_entry_high)
                   THEN Set ELSE NaN]_vars

(* an entry row whose rsi equals rsi_entry_low, next to an unset row *)
C1_Witness ==
    /\ Complete(dataframe)
    /\ \E i \in Rows(dataframe) :
           /\ dataframe["enter_long"][i] = Set
           /\ dataframe["rsi"][i] = <<rsi_entry_low>>
           /\ at(dataframe, "enter_long", i - 1) = NaN

(* C2: on a frame with indicators and no exit_long column yet,             *)
(* populate_exit_trend sets exit_long to 1 at exactly the rows where a     *)
(* bearish MACD cross, rsi < rsi_exit or close < ema200 holds, and leaves  *)
(* every other row unset.                                                  *)
C2_ExitExactly ==
    [][("exit_long" \notin DOMAIN dataframe /\ "exit_long" \in DOMAIN dataframe')
        => \A i \in Rows(dataframe) :
               dataframe'["exit_long"][i] = IF ExitRule(dataframe, i) THEN Set ELSE NaN]_vars

(* an exit row where only close < ema200 holds, and a row where none does *)
C2_Witness ==
    /\ Complete(dataframe)
    /\ \E i \in Rows(dataframe) :
           /\ dataframe["exit_long"][i] = Set
           /\ RegimeViolation(dataframe, i)
           /\ ~BearishCross(dataframe, i)
           /\ ~RsiBreakdown(dataframe, i)
    /\ \E i \in Rows(dataframe) :
           /\ defined({dataframe["rsi"][i]})
           /\ dataframe["exit_long"][i] = NaN

EntryOperands(df, i) ==
    {df[c][i] : c \in {"close", "ema200", "ema200_prev", "macd", "macdsignal",
                       "macd_prev", "macdsignal_prev", "rsi"}}

(* C3: a comparison with an undefined operand is false: an entry row with  *)
(* any undefined operand is never set, an exit row is set only through a   *)
(* disjunct whose operands are all defined, and a row with every indicator *)
(* undefined gets neither signal.                                          *)
C3_UndefinedIsFalse ==
    /\ (HasIndicators(dataframe) /\ "enter_long" \in DOMAIN dataframe)
        => \A i \in Rows(dataframe) :
               ~defined(EntryOperands(dataframe, i)) => dataframe["enter_long"][i] = NaN
    /\ (HasIndicators(dataframe) /\ "exit_long" \in DOMAIN dataframe)
        => \A i \in Rows(dataframe) :
               dataframe["exit_long"][i] = Set => ExitRule(dataframe, i)

(* row 0 has every indicator undefined and neither signal; another row has *)
(* exit_long set through rsi while ema200 is still undefined, and no        *)
(* enter_long                                                               *)
C3_Witness ==
    /\ Complete(dataframe)
    /\ \A c \in IndicatorCols : dataframe[c][1] = NaN
    /\ dataframe["enter_long"][1] = NaN
    /\ dataframe["exit_long"][1] = NaN
    /\ \E i \in Rows(dataframe) :
           /\ dataframe["exit_long"][i] = Set
           /\ dataframe["ema200"][i] = NaN
           /\ dataframe["enter_long"][i] = NaN

(* C4 as claimed: on every row t < 201 both signals are unset *)
C4_WarmupMasking201 ==
    \A c \in SignalCols \cap DOMAIN dataframe :
        \A i \in Rows(dataframe) : i <= ema_length + 1 => dataframe[c][i] # Set

(* C4, amended: enter_long is unset on every row t < 200 (ema200_prev is    *)
(* undefined there) and exit_long is unset on every row t < 14 (no          *)
(* indicator is defined before rsi); later rows may carry a signal.         *)
C4_WarmupMasking ==
    /\ "enter_long" \in DOMAIN dataframe
        => \A i \in Rows(dataframe) : i <= ema_length => dataframe["enter_long"][i] = NaN
    /\ "exit_long" \in DOMAIN dataframe
        => \A i \in Rows(dataframe) :
               i <= rsi_timeperiod => dataframe["exit_long"][i] = NaN

(* enter_long is set on row 200, the first row past the masked ones *)
C4_Witness ==
    /\ Complete(dataframe)
    /\ at(dataframe, "enter_long", ema_length + 1) = Set

BullishCross(df, i) ==
    /\ defined({at(df, "macd", i), at(df, "macdsignal", i), at(df, "macd", i - 1),
                at(df, "macdsignal", i - 1)})
    /\ df["macd"][i][1] > df["macdsignal"][i][1]
    /\ df["macd"][i - 1][1] <= df["macdsignal"][i - 1][1]

InDeclaredRanges ==
    /\ rsi_entry_low \in 45..50
    /\ rsi_entry_high \in 50..55

(* C5 as claimed: a frame holding a MACD bullish cross on a row whose rsi   *)
(* is below rsi_exit has a row with both enter_long and exit_long set.      *)
C5_BothOnOneRow ==
    (/\ Complete(dataframe)
     /\ InDeclaredRanges
     /\ \E i \in Rows(dataframe) : BullishCross(dataframe, i) /\ RsiBreakdown(dataframe, i))
    => \E i \in Rows(dataframe) :
           dataframe["enter_long"][i] = Set /\ dataframe["exit_long"][i] = Set

(* C5, amended: no row of a frame has both enter_long and exit_long set:    *)
(* an entry row has rsi >= rsi_entry_low >= 45 > rsi_exit, macd above       *)
(* macdsignal and close above ema200, so no exit disjunct holds on it.      *)
C5_NeverBoth ==
    Complete(dataframe)
    => \A i \in Rows(dataframe) :
           ~(dataframe["enter_long"][i] = Set /\ dataframe["exit_long"][i] = Set)

(* an entry row, exit_long computed, next to exit rows of the same frame *)
C5_Witness ==
    /\ Complete(dataframe)
    /\ InDeclaredRanges
    /\ \E i \in Rows(dataframe) :
           /\ dataframe["enter_long"][i] = Set
           /\ dataframe["exit_long"][i] = NaN
           /\ at(dataframe, "exit_long", i - 1) = Set

(* C6: the rows a frame shares with the shorter frame it extends hold the   *)
(* same indicator values, and get the same entry and exit decision, as in   *)
(* the shorter frame: no value at row t depends on a later row.             *)
C6_Causality ==
    (analyzed # NoFrame /\ HasIndicators(dataframe))
    => /\ \A c \in IndicatorCols \cup CandleCols :
              \A i \in Rows(analyzed) : dataframe[c][i] = analyzed[c][i]
       /\ \A i \in Rows(analyzed) :
              /\ EntryMask(dataframe, rsi_entry_low, rsi_entry_high)[i]
                     = EntryMask(analyzed, rsi_entry_low, rsi_entry_high)[i]
              /\ ExitMask(dataframe)[i] = ExitMask(analyzed)[i]

(* a frame with all indicators defined on its last row was extended by a    *)
(* candle and analysed again                                                *)
C6_Witness ==
    /\ analyzed # NoFrame
    /\ Complete(dataframe)
    /\ defined(EntryOperands(analyzed, Len(analyzed["close"])))
    /\ \E i \in Rows(analyzed) : analyzed["enter_long"][i] = Set

(* C7: populate_indicators applied to a frame that already holds the        *)
(* indicator columns yields the same value in every indicator column at     *)
(* every row.                                                               *)
C7_Idempotent ==
    HasIndicators(dataframe)
    => LET again == Indicators(dataframe)
       IN  \A c \in IndicatorCols : again[c] = dataframe[c]

(* a frame whose indicator columns, lags included, are defined on a row *)
C7_Witness ==
    /\ HasIndicators(dataframe)
    /\ DOMAIN dataframe = IndicatorCols \cup CandleCols
    /\ defined(EntryOperands(dataframe, Len(dataframe["close"])))

(* C8 as claimed: with rsi_entry_low > rsi_entry_high no frame gets an      *)
(* enter_long column: populate_entry_trend does not run to completion.      *)
C8_FailFast ==
    [][rsi_entry_low > rsi_entry_high
        => ~("enter_long" \notin DOMAIN dataframe /\ "enter_long" \in DOMAIN dataframe')]_vars

C10_FrameEffect ==
    /\ [][(HasIndicators(dataframe) /\ dataframe'["close"] = dataframe["close"])
           => /\ DOMAIN dataframe' \subseteq DOMAIN dataframe \cup SignalCols
              /\ \A c \in DOMAIN dataframe \ SignalCols : dataframe'[c] = dataframe[c]
              /\ \A i \in Rows(dataframe) :
                     /\ at(dataframe', "enter_long", i) # at(dataframe, "enter_long", i)
                            => /\ dataframe'["enter_long"][i] = Set
                               /\ EntryRule(dataframe, i, rsi_entry_low, rsi_entry_high)
                               /\ \A j \in Rows(dataframe) :
                                      at(dataframe', "exit_long", j) = at(dataframe, "exit_long", j)
                     /\ at(dataframe', "exit_long", i) # at(dataframe, "exit_long", i)
                            => /\ dataframe'["exit_long"][i] = Set
                               /\ ExitRule(dataframe, i)]_vars
    /\ [](HasIndicators(dataframe)
           => LET en(df) == EntryTrend(df, rsi_entry_low, rsi_entry_high)
                  ex(df) == ExitTrend(df)
              IN  /\ en(ex(dataframe)) = ex(en(dataframe))
                  /\ en(en(dataframe)) = en(dataframe)
                  /\ ex(ex(dataframe)) = ex(dataframe)
                  /\ en(ex(en(dataframe))) = ex(en(dataframe)))

(* a frame holding a 1 in enter_long on a row where the entry condition is  *)
(* false under the parameters now loaded                                    *)
C10_Witness ==
    /\ Complete(dataframe)
    /\ \E i \in Rows(dataframe) :
           /\ dataframe["enter_long"][i] = Set
           /\ ~EntryMask(dataframe, rsi_entry_low, rsi_entry_high)[i]
           /\ EntryTrend(dataframe, rsi_entry_low, rsi_entry_high)["enter_long"][i] = Set

====
